---- MODULE Spec2Model ----
(***************************************************************************)
(* You vs Everyone: the session integrity engine of the single-page app.   *)
(* The model follows the Supabase-enabled build (src/unnamed/part_000,     *)
(* the UTC variant of app.js); src/app.js is the older local-only build    *)
(* with the same challenge / streak / leave-rule code.                     *)
(*                                                                         *)
(* Time is Date.now() in milliseconds.  A day key "YYYY-MM-DD" (UTC) is    *)
(* represented by its day number since 1970-01-01; dayKeyString gives the  *)
(* text the code hashes, dayKeyToDate the instant the code parses it to.   *)
(***************************************************************************)
EXTENDS Integers, Sequences, FiniteSets, TLC

\* An absent value (null, a missing localStorage key); every real number is >= 0.
NULL == -1

\* ---------------------------------------------------------------- bounds
\* Days the clock may visit: 1 .. MaxDay (1970-01-02 ...).
MaxDay == 3
\* The clock moves within a day in steps of ThresholdMs \div Granularity.
Granularity == 2
\* Largest number of such steps past a day's midnight.
MaxSteps == 2
\* Largest number of handlers suspended on a remote call at once.
MaxPending == 1
\* Largest number of times the system clock is set back.
MaxSkews == 1
\* A timed session is started only while fewer than this many outcomes
\* (victories, failures) are in the two histories.
MaxOutcomes == 2
\* Values drawn from one generator.
MaxDraws == 3

\* ------------------------------------------------------------- constants
DayMs == 24 * 3600 * 1000
ThresholdMs == 15000
DefaultMin == 25
TickMs == 1000
BossHistoryCap == 20
ArenaHistoryCap == 30

StepMs == ThresholdMs \div Granularity

VARIABLES
  now,             \* Date.now()
  skews,           \* how often the system clock has been set back
  docHidden,       \* document.hidden
  winBlurred,      \* the window has lost focus
  lsStreak,        \* localStorage[LS.streak]        (NULL: key absent)
  lsLastStreakDay, \* localStorage[LS.lastStreakDay] (NULL: key absent)
  lsTodayState,    \* localStorage[LS.todayState]    (NULL: key absent)
  lsBossHistory,   \* localStorage[LS.bossHistory], newest first (<<>>: absent or [])
  lsArenaHistory,  \* localStorage[LS.arenaHistory], newest first (<<>>: absent or [])
  lsArenaBadges,   \* localStorage[LS.arenaBadges]   (NULL: key absent)
  activeRule,      \* Visibility.activeRule
  Boss,            \* the Boss object
  Arena,           \* the Arena object
  timers,          \* live setInterval countdown callbacks of each timed session
  screen,          \* the screen carrying class "active"
  modal,           \* the open modal and what its primary button captured
  btn,             \* the disabled flags of the action buttons
  shownStreak,     \* text of #streakBig
  authActive,      \* isAuthActive()
  daily,           \* history: what the last reads of the day's seeds, challenge and
                   \* crowd number returned, and how many reads that day (up to 2)
  prng,            \* a generator mulberry32(seed) returned: its state a, the last
                   \* value drawn and the catalog index taken from it
  dbSessions,      \* rows the last step sent to the remote table "sessions", by
                   \* mode: their status
  pending,         \* handlers suspended at an await on a remote call
  leftAt,          \* history: instant of the first hide/blur of the current departure
  underRule,       \* history: the active rule has been in the slot since leftAt
  incCount,        \* history: how often the streak count rose on each day key (up to 2)
  fired            \* history: what the last step did: the type of the rule whose
                   \* onTrigger it invoked, "checkBackNoop" for a checkBack that
                   \* returned at its guard, "complete" for a call of
                   \* completeChallenge, "boot" for a page load, "bossVictory" /
                   \* "arenaVictory" for the tick that won, else "none"

vars == <<now, skews, docHidden, winBlurred, lsStreak, lsLastStreakDay, lsTodayState,
          lsBossHistory, lsArenaHistory, lsArenaBadges, activeRule, Boss, Arena, timers, screen, modal, btn, shownStreak, authActive,
          daily, prng, dbSessions, pending, leftAt, underRule, incCount, fired>>

clockVars  == <<now, skews>>
envVars    == <<docHidden, winBlurred>>
streakVars == <<lsStreak, lsLastStreakDay, incCount>>
timedVars  == <<Boss, Arena, timers>>
logVars    == <<lsBossHistory, lsArenaHistory, lsArenaBadges>>
lsVars     == <<streakVars, lsTodayState, logVars>>
uiVars     == <<screen, modal, btn, shownStreak>>
histVars   == <<leftAt, underRule>>
noteVars   == <<daily, prng>>

\* ------------------------------------------------------- dates and clock
utcDayKey(t) == t \div DayMs

\* new Date(key + "T00:00:00Z").getTime()
dayKeyToDate(k) == k * DayMs

\* Math.floor((todayDate - lastDate) / (24 * 3600 * 1000)); \div floors.
diffDays(today, last) == (dayKeyToDate(today) - dayKeyToDate(last)) \div DayMs

minutesToMs(m) == m * 60 * 1000

\* Date.prototype.toISOString().slice(0, 10) of a day number: <<year, month, day>>
\* of the proleptic Gregorian calendar.
civilFromDays(d) ==
  LET z   == d + 719468
      era == z \div 146097
      doe == z - era * 146097
      yoe == (doe - (doe \div 1460) + (doe \div 36524) - (doe \div 146096)) \div 365
      doy == doe - (365 * yoe + (yoe \div 4) - (yoe \div 100))
      mp  == (5 * doy + 2) \div 153
      dd  == doy - ((153 * mp + 2) \div 5) + 1
      mm  == IF mp < 10 THEN mp + 3 ELSE mp - 9
      yy  == yoe + era * 400 + (IF mm <= 2 THEN 1 ELSE 0)
  IN  <<yy, mm, dd>>

\* Character codes of the decimal digits of n, padded to w places.
RECURSIVE digits(_, _)
digits(n, w) == IF w = 0 THEN <<>> ELSE Append(digits(n \div 10, w - 1), 48 + (n % 10))

\* The character codes of the day key "YYYY-MM-DD".
dayKeyString(k) ==
  LET c == civilFromDays(k)
  IN  digits(c[1], 4) \o <<45>> \o digits(c[2], 2) \o <<45>> \o digits(c[3], 2)

\* ------------------------------------------------- 32-bit word arithmetic
\* A uint32 is kept as <<high 16 bits, low 16 bits>>.
Half == 65536

RECURSIVE bitXor(_, _, _)
bitXor(a, b, n) ==
  IF n = 0 THEN 0
  ELSE (((a % 2) + (b % 2)) % 2) + 2 * bitXor(a \div 2, b \div 2, n - 1)

RECURSIVE bitOr(_, _, _)
bitOr(a, b, n) ==
  IF n = 0 THEN 0
  ELSE (IF (a % 2) + (b % 2) > 0 THEN 1 ELSE 0) + 2 * bitOr(a \div 2, b \div 2, n - 1)

RECURSIVE pow2(_)
pow2(n) == IF n = 0 THEN 1 ELSE 2 * pow2(n - 1)

xor32(x, y) == <<bitXor(x[1], y[1], 16), bitXor(x[2], y[2], 16)>>
or32(x, y)  == <<bitOr(x[1], y[1], 16), bitOr(x[2], y[2], 16)>>
add32(x, y) ==
  LET lo == x[2] + y[2]
  IN  <<(x[1] + y[1] + (lo \div Half)) % Half, lo % Half>>

\* x >>> n, for 0 < n < 16
shr32(x, n) ==
  <<x[1] \div pow2(n), (x[2] \div pow2(n)) + (x[1] % pow2(n)) * pow2(16 - n)>>

\* (a * b) mod 2^16 of two 16-bit values, without leaving 31 bits
mul16lo(a, b) == ((a * (b % 256)) + ((a * (b \div 256)) % 256) * 256) % Half

\* Math.imul(x, y) >>> 0
imul(x, y) ==
  LET a0 == x[2] % 256
      a1 == x[2] \div 256
      p1 == a1 * y[2]
      s  == a0 * y[2] + (p1 % 256) * 256
      carry == (s \div Half) + (p1 \div 256)
  IN  <<(carry + mul16lo(x[1], y[2]) + mul16lo(x[2], y[1])) % Half, s % Half>>

Word32 == (0..(Half - 1)) \X (0..(Half - 1))

\* FNV-1a over the character codes of str; every intermediate h is a uint32
\* (h >>> 0), which the membership test also makes TLC compute step by step.
RECURSIVE hashFrom(_, _)
hashFrom(h, str) ==
  IF str = <<>> THEN h
  ELSE LET nh == imul(xor32(h, <<0, Head(str)>>), <<256, 403>>)
       IN  IF nh \in Word32 THEN hashFrom(nh, Tail(str)) ELSE nh

hash32(str) == hashFrom(<<33052, 40389>>, str)

\* One step of the Mulberry32 generator: <<next state a, output word>>;
\* the value rnd() returns is the output word divided by 2^32.
mulberry32(a) ==
  LET a1 == add32(a, <<27947, 31221>>)
      t1 == imul(xor32(a1, shr32(a1, 15)), or32(<<0, 1>>, a1))
      t2 == xor32(t1, add32(t1, imul(xor32(t1, shr32(t1, 7)), or32(<<0, 61>>, t1))))
  IN  <<a1, xor32(t2, shr32(t2, 14))>>

\* Math.round in the place of Math.floor: the nearest whole number.
roundScale(u, n) == (u[1] * n + (u[2] * n) \div Half + (Half \div 2)) \div Half

\* Math.floor((u / 2^32) * n) for a word u and 0 < n < 2^15
floorScale(u, n) == (u[1] * n + (u[2] * n) \div Half) \div Half

SaltChallenge == <<99, 104, 97, 108, 108, 101, 110, 103, 101>>
SaltCrowd     == <<99, 114, 111, 119, 100>>

\* hash32(`yve:${key}:${salt}`) with key the day key of day number k
todaySeed(k, salt) == hash32(<<121, 118, 101, 58>> \o dayKeyString(k) \o <<58>> \o salt)

CatalogSize == 12

challengeIndex(k) == floorScale(mulberry32(todaySeed(k, SaltChallenge))[2], CatalogSize)

\* The selection is a function of the day key alone; it is tabulated once.
ChallengeTable == [k \in 0..(MaxDay + 2) |-> challengeIndex(k)]

\* getTodaysChallenge().id on day k
getTodaysChallenge(k) == ChallengeTable[k]

\* The offsets of local time from UTC of the clients compared: an hour behind,
\* none, an hour ahead.
TzOffsets == {0 - (DayMs \div 24), 0, DayMs \div 24}

\* localDayKey(d) of the storage-only build, for the instant t on a client whose
\* local time is UTC plus offset: getFullYear(), getMonth() and getDate() are
\* the fields of the local date.
localDayKey(t, offset) == (t + offset) \div DayMs

\* hash32(`yve:${key}:${salt}`) for both salts, tabulated by day.
SeedTable ==
  [k \in 0..(MaxDay + 2) |-> <<todaySeed(k, SaltChallenge), todaySeed(k, SaltCrowd)>>]

\* Number.prototype.toLocaleString() of a count below a million: its groups of
\* three digits (the separator between them is the locale's).
toLocaleString(n) == <<n \div 1000, n % 1000>>

\* The two draws getTodaysCrowdNumber() takes from the generator it creates
\* from state a: <<state left, base + wiggle>>.
crowdDraws(a) ==
  LET g1 == mulberry32(a)
      g2 == mulberry32(g1[1])
  IN  <<g2[1], 8000 + floorScale(g1[2], 24000) + floorScale(g2[2], 1800)>>

\* crowdDraws from the day's "crowd" seed, tabulated by day.
CrowdDrawsTable == [k \in 0..(MaxDay + 2) |-> crowdDraws(SeedTable[k][2])]

CrowdTable == [k \in 0..(MaxDay + 2) |-> toLocaleString(CrowdDrawsTable[k][2])]

\* getTodaysCrowdNumber() on day k
getTodaysCrowdNumber(k) == CrowdTable[k]

\* 16-bit halves at the edges of their range; the seeds tried are all pairs of
\* them and the seeds of the days.
EdgeHalves == {0, 1, 255, 256, 32767, 32768, 65534, 65535}

SeedSamples ==
  (EdgeHalves \X EdgeHalves) \cup {SeedTable[k][1] : k \in 0..(MaxDay + 2)}

\* The generator mulberry32(seed) before its first call.
newPrng(seed) == [a |-> seed, word |-> <<0, 0>>, idx |-> 0, n |-> 0]

NoPrng == newPrng(<<0, 0>>)

\* Nothing read yet.
NoDaily ==
  [day |-> NULL, reads |-> 0, seeds |-> <<>>, challenge |-> NULL, crowd |-> <<>>,
   gen |-> <<0, 0>>]

\* ------------------------------------------------ persisted daily state
\* No value under LS.todayState (loadJSON returns the fallback null).
NoRecord ==
  [dayKey |-> NULL, state |-> "absent", startedAt |-> NULL, resultAt |-> NULL,
   challengeId |-> NULL]

\* parseInt(localStorage.getItem(LS.streak) || "0", 10)
getStreak(s) == IF s = NULL THEN 0 ELSE s

\* The value setStreak(n) stores: String(Math.max(0, n)).
setStreak(n) == IF n < 0 THEN 0 ELSE n

\* What the key of the record may hold besides a record: nothing ("absent"),
\* text JSON.parse rejects, such as a record cut short ("unparseable"), a value
\* getItem throws on ("unreadable"), JSON of a value without fields ("scalar").
\* The first field is the day key that can still be made out in the text.
Damaged(kind, d) ==
  [dayKey |-> d, state |-> kind, startedAt |-> NULL, resultAt |-> NULL, challengeId |-> NULL]

DamagedKinds == {"absent", "unparseable", "unreadable", "scalar"}

\* loadJSON() without its try / catch and taken at its word: the text is
\* handed on as if it were the value.
loadJSONUnchecked(raw, fallback) ==
  IF raw.state = "absent" THEN fallback ELSE raw

\* loadJSON(key, fallback) on the stored text raw
loadJSON(raw, fallback) ==
  CASE raw.state = "absent"                      -> fallback
    [] raw.state \in {"unparseable", "unreadable"} -> fallback
    [] raw.state = "scalar"                      -> Damaged("scalar", NULL)
    [] OTHER                                     -> raw

\* getTodayChallengeState() without the day comparison: a stored record is
\* returned whatever its dayKey.
getTodayChallengeStateAnyDay(s, t) ==
  IF s = NoRecord
  THEN [dayKey |-> utcDayKey(t), state |-> "not_started", startedAt |-> NULL,
        resultAt |-> NULL, challengeId |-> getTodaysChallenge(utcDayKey(t))]
  ELSE s

\* The record getTodayChallengeState() returns at time t when s is stored; it is
\* also what is stored afterwards (a fresh record is saved before it is returned).
getTodayChallengeState(raw, t) ==
  LET s == loadJSON(raw, NoRecord)
  IN  IF s = NoRecord \/ s.dayKey # utcDayKey(t)
      THEN [dayKey |-> utcDayKey(t), state |-> "not_started", startedAt |-> NULL,
            resultAt |-> NULL, challengeId |-> getTodaysChallenge(utcDayKey(t))]
      ELSE s

\* setTodayChallengeState(patch) taking the state from the patch and nothing
\* else.
setTodayChallengeStateOnly(s, t, patch) ==
  LET cur == getTodayChallengeState(s, t)
  IN  [cur EXCEPT !.state = patch.state]

\* The record setTodayChallengeState(patch) stores and returns: {...cur, ...patch}.
setTodayChallengeState(s, t, patch) ==
  LET cur == getTodayChallengeState(s, t)
  IN  [f \in DOMAIN cur |-> IF f \in DOMAIN patch THEN patch[f] ELSE cur[f]]

\* reconcileStreakForNewDay() with the gap test off by one (diffDays > 2).
reconcileStreakLate(streak, last, t) ==
  IF last = NULL THEN streak
  ELSE IF diffDays(utcDayKey(t), last) > 2 THEN setStreak(0) ELSE streak

\* The streak count reconcileStreakForNewDay() leaves stored at time t.
reconcileStreakForNewDay(streak, last, t) ==
  IF last = NULL THEN streak
  ELSE IF diffDays(utcDayKey(t), last) >= 2 THEN setStreak(0) ELSE streak

\* completeChallenge()'s count with any later day taken as the next one
\* (diffDays >= 1).
completedStreakAnyGap(streak, last, today) ==
  IF last # today
  THEN IF last # NULL
       THEN IF diffDays(today, last) >= 1 THEN getStreak(streak) + 1 ELSE 1
       ELSE 1
  ELSE getStreak(streak)

\* completeChallenge()'s count with a broken run of days counted as 0.
completedStreakZeroOnGap(streak, last, today) ==
  IF last # today
  THEN IF last # NULL
       THEN IF diffDays(today, last) = 1 THEN getStreak(streak) + 1 ELSE 0
       ELSE 1
  ELSE getStreak(streak)

\* The streak count completeChallenge() computes on day today.
completedStreak(streak, last, today) ==
  IF last # today
  THEN IF last # NULL
       THEN IF diffDays(today, last) = 1 THEN getStreak(streak) + 1 ELSE 1
       ELSE 1
  ELSE getStreak(streak)

\* --------------------------------------------------------------- leave rule
NoRule == [type |-> "none", thresholdMs |-> 0, awayStart |-> NULL]

\* startLeaveRule that carries over the away-timestamp of the rule it replaces.
startLeaveRuleKeepAway(type, thresholdMs) ==
  [type |-> type, thresholdMs |-> thresholdMs, awayStart |-> activeRule.awayStart]

\* Visibility.activeRule after startLeaveRule({type, thresholdMs, onTrigger});
\* onTrigger is the closure that belongs to the type.
startLeaveRule(type, thresholdMs) ==
  [type |-> type, thresholdMs |-> thresholdMs, awayStart |-> NULL]

stopLeaveRule == NoRule

\* ------------------------------------------------------------------- DOM
\* A task label is the sequence of its characters.
NoTask == <<>>

NoModal == [k |-> "none", cid |-> NULL, task |-> NoTask]

\* The disabled flags renderChallenge24() sets from the state it read.
renderChallenge24(st, b) ==
  [b EXCEPT !.join     = st.state \in {"in_progress", "completed"},
            !.complete = st.state # "in_progress",
            !.fail     = st.state # "in_progress"]

Attended == ~docHidden /\ ~winBlurred
CanClick == Attended /\ modal = NoModal

\* A handler that awaits a remote call is suspended there in auth mode.
CanSuspend(k) == k \notin pending /\ Cardinality(pending) < MaxPending

\* The mode of the session found at page load (ensureEntryGate).
AuthModes == BOOLEAN

\* What the task input may hold when Start is pressed: nothing, white space
\* only, a label, a label within white space.
Tasks == {<<>>, <<" ">>, <<" ", " ">>, <<"w">>, <<" ", "w", " ">>}

\* String.prototype.trim()
RECURSIVE trimStart(_)
trimStart(t) == IF t # <<>> /\ Head(t) = " " THEN trimStart(Tail(t)) ELSE t

RECURSIVE trimEnd(_)
trimEnd(t) == IF t # <<>> /\ t[Len(t)] = " " THEN trimEnd(SubSeq(t, 1, Len(t) - 1)) ELSE t

trim(t) == trimEnd(trimStart(t))

\* The minutes a duration preset button carries (its data-min / data-focus-min
\* attribute, read by parseInt): the shortest whole number of minutes.
PresetMinutes == {1}

\* list.unshift(entry) without the slice: nothing is ever dropped.
unshiftUncapped(list, entry, cap) == <<entry>> \o list

\* list.unshift(entry); list.slice(0, cap)
unshiftCapped(list, entry, cap) ==
  LET l == <<entry>> \o list
  IN  IF Len(l) > cap THEN SubSeq(l, 1, cap) ELSE l

\* parseInt(localStorage.getItem(LS.arenaBadges) || "0", 10)
getArenaBadges(b) == IF b = NULL THEN 0 ELSE b

\* A counter of the badges earned, one for every third cleared session, in the
\* place of the count of cleared sessions.
setArenaBadgesEarned(n) == IF n < 0 THEN 0 ELSE n \div 3

\* The value setArenaBadges(n) stores: String(Math.max(0, n)).
setArenaBadges(n) == IF n < 0 THEN 0 ELSE n

\* No row sent yet.
NoRows == [boss |-> <<>>, arena |-> <<>>]

\* dbInsertSession({mode, status, ...}): in auth mode the row is sent, else
\* the function returns at once.
dbInsertSession(rows, auth, mode, status) ==
  IF auth THEN [rows EXCEPT ![mode] = Append(@, status)] ELSE rows

\* The insert of bossStop / arenaStop: a row 'stopped' when the session S was
\* running with time left.
stopInsert(rows, auth, mode, S) ==
  IF S.running /\ S.remainingMs > 0 THEN dbInsertSession(rows, auth, mode, "stopped") ELSE rows

\* --------------------------------------------------------------- page load
DefaultBoss ==
  [running |-> FALSE, totalMs |-> minutesToMs(DefaultMin),
   remainingMs |-> minutesToMs(DefaultMin), tick |-> FALSE,
   selectedMin |-> DefaultMin, task |-> NoTask]

DefaultArena ==
  [running |-> FALSE, totalMs |-> minutesToMs(DefaultMin),
   remainingMs |-> minutesToMs(DefaultMin), tick |-> FALSE,
   selectedMin |-> DefaultMin]

\* The challenge buttons are unreachable until renderChallenge24 has set them
\* (their screen is entered through enterMode); the timed buttons are as
\* bossStop / arenaStop leave them.
DefaultBtn ==
  [join |-> TRUE, complete |-> TRUE, fail |-> TRUE,
   startBoss |-> FALSE, stopBoss |-> TRUE, startArena |-> FALSE, stopArena |-> TRUE]

\* boot(): reconcileStreakForNewDay, initDefaults, renderHub, showScreen, on
\* whatever localStorage holds; a reload drops every in-memory object.
boot ==
  /\ lsStreak' = reconcileStreakForNewDay(lsStreak, lsLastStreakDay, now)
  /\ lsLastStreakDay' = lsLastStreakDay
  /\ incCount' = incCount
  /\ lsTodayState' = getTodayChallengeState(lsTodayState, now)
  /\ shownStreak' = getStreak(lsStreak')
  /\ activeRule' = NoRule
  /\ Boss' = DefaultBoss
  /\ Arena' = DefaultArena
  /\ timers' = [boss |-> 0, arena |-> 0]
  /\ screen' = "home"
  /\ modal' = NoModal
  /\ btn' = DefaultBtn
  /\ pending' = {}
  /\ authActive' \in AuthModes
  /\ underRule' = FALSE
  /\ fired' = "boot"
  /\ dbSessions' = NoRows
  /\ UNCHANGED <<clockVars, envVars, logVars, leftAt, daily, prng>>

\* The page after its first load.
InitPage ==
  /\ now = DayMs
  /\ skews = 0
  /\ docHidden = FALSE
  /\ winBlurred = FALSE
  /\ lsStreak = NULL
  /\ lsLastStreakDay = NULL
  /\ incCount = [d \in 0..(MaxDay + 1) |-> 0]
  /\ lsTodayState = getTodayChallengeState(NoRecord, DayMs)
  /\ lsBossHistory = <<>>
  /\ lsArenaHistory = <<>>
  /\ lsArenaBadges = NULL
  /\ shownStreak = 0
  /\ activeRule = NoRule
  /\ Boss = DefaultBoss
  /\ Arena = DefaultArena
  /\ timers = [boss |-> 0, arena |-> 0]
  /\ screen = "home"
  /\ modal = NoModal
  /\ btn = DefaultBtn
  /\ pending = {}
  /\ authActive \in AuthModes
  /\ daily = NoDaily
  /\ dbSessions = NoRows
  /\ leftAt = NULL
  /\ underRule = FALSE
  /\ fired = "none"

Init == InitPage /\ prng = NoPrng

\* ------------------------------------------------------------ the generator
\* rnd(): one call of the function mulberry32(seed) returned, and the index
\* getTodaysChallenge() takes from the value, Math.floor(rnd() * length).
rnd ==
  /\ prng.n < MaxDraws
  /\ LET g == mulberry32(prng.a)
     IN  prng' = [a |-> g[1], word |-> g[2], idx |-> floorScale(g[2], CatalogSize),
                  n |-> prng.n + 1]
  /\ fired' = "none"
  /\ dbSessions' = NoRows
  /\ UNCHANGED <<clockVars, envVars, lsVars, activeRule, timedVars, uiVars, authActive,
                 daily, pending, histVars>>

\* Generators created from the sample seeds, each drawn from in turn.
InitPrng == InitPage /\ prng \in {newPrng(seed) : seed \in SeedSamples}

SpecPrng == InitPrng /\ [][rnd]_vars

\* -------------------------------------------------------------- the clock
Advance ==
  /\ (now % DayMs) + StepMs <= MaxSteps * StepMs
  /\ now' = now + StepMs
  /\ fired' = "none"
  /\ dbSessions' = NoRows
  /\ UNCHANGED <<skews, envVars, lsVars, activeRule, timedVars, uiVars, authActive, noteVars,
                 pending, histVars>>

NextDay ==
  /\ utcDayKey(now) < MaxDay
  /\ now' = now + DayMs
  /\ fired' = "none"
  /\ dbSessions' = NoRows
  /\ UNCHANGED <<skews, envVars, lsVars, activeRule, timedVars, uiVars, authActive, noteVars,
                 pending, histVars>>

\* The system clock is set back by a number of days (clock skew).
ClockBackBy(days) ==
  /\ skews < MaxSkews
  /\ utcDayKey(now) - days >= 1
  /\ now' = now - days * DayMs
  /\ skews' = skews + 1
  /\ fired' = "none"
  /\ dbSessions' = NoRows
  /\ UNCHANGED <<envVars, lsVars, activeRule, timedVars, uiVars, authActive, noteVars,
                 pending, histVars>>

\* The system clock is set back a day.
ClockBack == ClockBackBy(1)

\* The system clock is set back within the day.
ClockBackWithinDay ==
  /\ skews < MaxSkews
  /\ now % DayMs >= StepMs
  /\ now' = now - StepMs
  /\ skews' = skews + 1
  /\ fired' = "none"
  /\ dbSessions' = NoRows
  /\ UNCHANGED <<envVars, lsVars, activeRule, timedVars, uiVars, authActive, noteVars,
                 pending, histVars>>

\* ---------------------------------------------------- the 24h challenge
\* renderChallenge24(); renderHub(): both read the day's state (saving a fresh
\* record on a new day); the first sets the buttons, the second shows the streak.
RenderChallengeAndHub(ts, streak) ==
  /\ lsTodayState' = getTodayChallengeState(ts, now)
  /\ btn' = renderChallenge24(getTodayChallengeState(ts, now), btn)
  /\ shownStreak' = getStreak(streak)

\* failChallenge(reason), entered with rule0 in the active-rule slot.
\* Writes lsTodayState, activeRule, btn, shownStreak, pending.
failChallenge(rule0) ==
  LET st == getTodayChallengeState(lsTodayState, now)
  IN  IF st.state # "in_progress"
      THEN /\ lsTodayState' = st
           /\ activeRule' = rule0
           /\ UNCHANGED <<btn, shownStreak, pending>>
      ELSE LET failed == setTodayChallengeState(st, now,
                           [state |-> "failed", resultAt |-> now])
           IN  /\ activeRule' = stopLeaveRule
               /\ IF authActive
                  THEN /\ CanSuspend("fail")
                       /\ lsTodayState' = failed
                       /\ pending' = pending \cup {"fail"}
                       /\ UNCHANGED <<btn, shownStreak>>
                  ELSE /\ RenderChallengeAndHub(failed, lsStreak)
                       /\ UNCHANGED pending

\* A fail button that also breaks the streak: the count is written as 0.
ClickFailBreaksStreak ==
  /\ CanClick /\ screen = "challenge24" /\ ~btn.fail
  /\ failChallenge(activeRule)
  /\ lsStreak' = IF getTodayChallengeState(lsTodayState, now).state = "in_progress"
                 THEN setStreak(0) ELSE lsStreak
  /\ underRule' = FALSE
  /\ fired' = "none"
  /\ dbSessions' = NoRows
  /\ UNCHANGED <<clockVars, envVars, lsLastStreakDay, incCount, logVars, timedVars, screen,
                 modal, authActive, noteVars, leftAt>>

\* #failChallengeBtn
ClickFail ==
  /\ CanClick /\ screen = "challenge24" /\ ~btn.fail
  /\ failChallenge(activeRule)
  /\ underRule' = FALSE
  /\ fired' = "none"
  /\ dbSessions' = NoRows
  /\ UNCHANGED <<clockVars, envVars, streakVars, logVars, timedVars, screen, modal, authActive, noteVars, leftAt>>

\* The tail both variants below share with completeChallenge(): the record and
\* the ledger are written, then the remote upsert and the renders.
completeWrites(st, streak) ==
  LET today == utcDayKey(now)
      done  == setTodayChallengeState(st, now, [state |-> "completed", resultAt |-> now])
  IN  /\ activeRule' = stopLeaveRule
      /\ lsStreak' = streak
      /\ lsLastStreakDay' = today
      /\ incCount' = IF getStreak(streak) > getStreak(lsStreak) /\ incCount[today] < 2
                     THEN [incCount EXCEPT ![today] = @ + 1] ELSE incCount
      /\ IF authActive
         THEN /\ Cardinality(pending \cup {"complete"}) <= MaxPending
              /\ lsTodayState' = done
              /\ pending' = pending \cup {"complete"}
              /\ UNCHANGED <<btn, shownStreak>>
         ELSE /\ RenderChallengeAndHub(done, streak)
              /\ UNCHANGED pending

\* completeChallenge() without its guard on the state.
completeChallengeNoGuard ==
  LET st    == getTodayChallengeState(lsTodayState, now)
      today == utcDayKey(now)
      last  == lsLastStreakDay
  IN  completeWrites(st, IF last # today
                         THEN setStreak(completedStreak(lsStreak, last, today))
                         ELSE lsStreak)

\* completeChallenge() counting every call: no guard on the state, and the
\* count raised by one whatever lastStreakDay holds.
completeChallengeEveryCall ==
  completeWrites(getTodayChallengeState(lsTodayState, now), setStreak(getStreak(lsStreak) + 1))

\* completeChallenge(), from #completeChallengeBtn
completeChallenge ==
  LET st    == getTodayChallengeState(lsTodayState, now)
      today == utcDayKey(now)
      last  == lsLastStreakDay
  IN  IF st.state # "in_progress"
      THEN /\ lsTodayState' = st
           /\ UNCHANGED <<activeRule, streakVars, btn, shownStreak, pending>>
      ELSE LET streak == IF last # today
                         THEN setStreak(completedStreak(lsStreak, last, today))
                         ELSE lsStreak
               done   == setTodayChallengeState(st, now,
                           [state |-> "completed", resultAt |-> now])
           IN  /\ activeRule' = stopLeaveRule
               /\ lsStreak' = streak
               /\ lsLastStreakDay' = today
               /\ incCount' = IF getStreak(streak) > getStreak(lsStreak) /\ incCount[today] < 2
                              THEN [incCount EXCEPT ![today] = @ + 1] ELSE incCount
               /\ IF authActive
                  THEN /\ CanSuspend("complete")
                       /\ lsTodayState' = done
                       /\ pending' = pending \cup {"complete"}
                       /\ UNCHANGED <<btn, shownStreak>>
                  ELSE /\ RenderChallengeAndHub(done, streak)
                       /\ UNCHANGED pending

ClickComplete ==
  /\ CanClick /\ screen = "challenge24" /\ ~btn.complete
  /\ completeChallenge
  /\ underRule' = FALSE
  /\ fired' = "complete"
  /\ dbSessions' = NoRows
  /\ UNCHANGED <<clockVars, envVars, logVars, timedVars, screen, modal, authActive, noteVars, leftAt>>

\* The durable writes of completeChallenge(), in the order it makes them.
CompleteWrites == {"streak", "lastStreakDay", "todayState"}

\* completeChallenge() from #completeChallengeBtn on a run in progress, when
\* localStorage.setItem throws in the write w (quota, storage disabled).
\* setStreak and the write of lastStreakDay call setItem bare: the exception
\* leaves the handler there.  saveJSON catches it: the handler goes on with
\* the record as it was stored.
ClickCompleteWriteFails(w) ==
  LET st     == getTodayChallengeState(lsTodayState, now)
      today  == utcDayKey(now)
      last   == lsLastStreakDay
      streak == setStreak(completedStreak(lsStreak, last, today))
      counted(n) == IF getStreak(n) > getStreak(lsStreak) /\ incCount[today] < 2
                    THEN [incCount EXCEPT ![today] = @ + 1] ELSE incCount
  IN  /\ CanClick /\ screen = "challenge24" /\ ~btn.complete
      /\ st = lsTodayState /\ st.state = "in_progress"
      /\ w \in {"streak", "lastStreakDay"} => last # today
      /\ getStreak(lsStreak) <= MaxDay
      /\ activeRule' = stopLeaveRule
      /\ underRule' = FALSE
      /\ CASE w = "streak" ->
                /\ fired' = "completeThrew"
                /\ UNCHANGED <<streakVars, lsTodayState, btn, shownStreak, pending>>
           [] w = "lastStreakDay" ->
                /\ lsStreak' = streak
                /\ incCount' = counted(streak)
                /\ fired' = "completeThrew"
                /\ UNCHANGED <<lsLastStreakDay, lsTodayState, btn, shownStreak, pending>>
           [] w = "todayState" ->
                LET kept == IF last # today THEN streak ELSE lsStreak
                IN  /\ lsStreak' = kept
                    /\ lsLastStreakDay' = today
                    /\ incCount' = counted(kept)
                    /\ fired' = "complete"
                    /\ IF authActive
                       THEN /\ CanSuspend("complete")
                            /\ pending' = pending \cup {"complete"}
                            /\ UNCHANGED <<lsTodayState, btn, shownStreak>>
                       ELSE /\ RenderChallengeAndHub(lsTodayState, kept)
                            /\ UNCHANGED pending
      /\ dbSessions' = NoRows
      /\ UNCHANGED <<clockVars, envVars, logVars, timedVars, screen, modal, authActive, noteVars, leftAt>>

\* joinChallenge(), from #joinChallengeBtn: opens the rule-check modal; its
\* primary button keeps c = getTodaysChallenge() of the moment it was opened.
joinChallenge ==
  /\ CanClick /\ screen = "challenge24" /\ ~btn.join
  /\ modal' = [k |-> "join", cid |-> getTodaysChallenge(utcDayKey(now)), task |-> NoTask]
  /\ fired' = "none"
  /\ dbSessions' = NoRows
  /\ UNCHANGED <<clockVars, envVars, lsVars, activeRule, timedVars, screen, btn,
                 shownStreak, authActive, noteVars, pending, histVars>>

\* "Cancel" of any rule-check modal (also the close button and Escape).
ModalCancel ==
  /\ Attended /\ modal # NoModal
  /\ modal' = NoModal
  /\ fired' = "none"
  /\ dbSessions' = NoRows
  /\ UNCHANGED <<clockVars, envVars, lsVars, activeRule, timedVars, screen, btn,
                 shownStreak, authActive, noteVars, pending, histVars>>

\* The modal's "Join Challenge" button.
ConfirmJoin ==
  /\ Attended /\ modal.k = "join"
  /\ modal' = NoModal
  /\ LET joined == setTodayChallengeState(lsTodayState, now,
                     [state |-> "in_progress", startedAt |-> now,
                      challengeId |-> modal.cid, resultAt |-> NULL])
     IN  IF authActive
         THEN /\ CanSuspend("join")
              /\ lsTodayState' = joined
              /\ pending' = pending \cup {"join"}
              /\ UNCHANGED <<activeRule, btn, shownStreak, underRule>>
         ELSE /\ activeRule' = startLeaveRule("challenge24", ThresholdMs)
              /\ underRule' = FALSE
              /\ RenderChallengeAndHub(joined, lsStreak)
              /\ UNCHANGED pending
  /\ fired' = "none"
  /\ dbSessions' = NoRows
  /\ UNCHANGED <<clockVars, envVars, streakVars, logVars, timedVars, screen, authActive, noteVars, leftAt>>

\* The remote upsert of joinChallenge returns: startLeaveRule, then the renders.
ResumeJoin ==
  /\ "join" \in pending
  /\ pending' = pending \ {"join"}
  /\ activeRule' = startLeaveRule("challenge24", ThresholdMs)
  /\ underRule' = FALSE
  /\ RenderChallengeAndHub(lsTodayState, lsStreak)
  /\ fired' = "none"
  /\ dbSessions' = NoRows
  /\ UNCHANGED <<clockVars, envVars, streakVars, logVars, timedVars, screen, modal, authActive, noteVars, leftAt>>

\* The remote upsert of completeChallenge / failChallenge returns: the renders.
ResumeComplete ==
  /\ "complete" \in pending
  /\ pending' = pending \ {"complete"}
  /\ RenderChallengeAndHub(lsTodayState, lsStreak)
  /\ fired' = "none"
  /\ dbSessions' = NoRows
  /\ UNCHANGED <<clockVars, envVars, streakVars, logVars, activeRule, timedVars, screen, modal,
                 authActive, noteVars, histVars>>

ResumeFail ==
  /\ "fail" \in pending
  /\ pending' = pending \ {"fail"}
  /\ RenderChallengeAndHub(lsTodayState, lsStreak)
  /\ fired' = "none"
  /\ dbSessions' = NoRows
  /\ UNCHANGED <<clockVars, envVars, streakVars, logVars, activeRule, timedVars, screen, modal,
                 authActive, noteVars, histVars>>

\* ------------------------------------------------------ the timed sessions
\* The entries bossVictory() and arenaVictory() / arenaFail() put first in
\* their history.
bossEntry ==
  [dayKey |-> utcDayKey(now), task |-> Boss.task, minutes |-> Boss.selectedMin, ts |-> now]

arenaEntry(result) ==
  [dayKey |-> utcDayKey(now), minutes |-> Arena.selectedMin, ts |-> now, result |-> result]

\* A stop that leaves the interval handle in the session object.
stoppedKeepTick(S) == [S EXCEPT !.running = FALSE]

\* A stop without clearInterval: the callback stays scheduled.
clearIntervalNever(S, n) == n

\* A stop that forfeits the session: the time left is struck out.
stoppedForfeit(S) == [S EXCEPT !.running = FALSE, !.tick = FALSE, !.remainingMs = 0]

\* Boss / Arena after the synchronous part of bossStop / arenaStop.
stopped(S) == [S EXCEPT !.running = FALSE, !.tick = FALSE]

\* clearInterval(S.tick) on the live callbacks n of that session.
clearInterval(S, n) == IF S.tick /\ n > 0 THEN n - 1 ELSE n

\* bossStart() that tests the input as typed, without trim().
bossStartNoTrim(task) ==
  /\ CanClick /\ screen = "bossFight" /\ ~btn.startBoss
  /\ modal' = IF task = NoTask THEN modal ELSE [k |-> "boss", cid |-> NULL, task |-> task]
  /\ fired' = IF task = NoTask THEN "bossStartRejected" ELSE "none"
  /\ dbSessions' = NoRows
  /\ UNCHANGED <<clockVars, envVars, lsVars, activeRule, timedVars, screen, btn,
                 shownStreak, authActive, noteVars, pending, histVars>>

\* bossStart(), from #startBossBtn with the task input holding task.
bossStart(task) ==
  /\ CanClick /\ screen = "bossFight" /\ ~btn.startBoss
  /\ modal' = IF trim(task) = NoTask THEN modal
             ELSE [k |-> "boss", cid |-> NULL, task |-> trim(task)]
  /\ fired' = IF trim(task) = NoTask THEN "bossStartRejected" ELSE "none"
  /\ dbSessions' = NoRows
  /\ UNCHANGED <<clockVars, envVars, lsVars, activeRule, timedVars, screen, btn,
                 shownStreak, authActive, noteVars, pending, histVars>>

\* The modal's "Start Fight" button.
ConfirmBoss ==
  /\ Attended /\ modal.k = "boss"
  /\ modal' = NoModal
  /\ Boss' = [Boss EXCEPT !.task = modal.task, !.running = TRUE, !.tick = TRUE]
  /\ timers' = [timers EXCEPT !.boss = @ + 1]
  /\ btn' = [btn EXCEPT !.startBoss = TRUE, !.stopBoss = FALSE]
  /\ activeRule' = startLeaveRule("bossFight", ThresholdMs)
  /\ underRule' = FALSE
  /\ dbSessions' = NoRows
  /\ fired' = "none"
  /\ UNCHANGED <<clockVars, envVars, lsVars, Arena, screen, shownStreak, authActive, daily, prng,
                 pending, leftAt>>

\* bossStop(reason), from #stopBossBtn; nothing follows its remote insert.
bossStop ==
  /\ CanClick /\ screen = "bossFight" /\ ~btn.stopBoss
  /\ IF ~Boss.running
     THEN UNCHANGED <<Boss, timers, activeRule, btn>>
     ELSE /\ Boss' = stopped(Boss)
          /\ timers' = [timers EXCEPT !.boss = clearInterval(Boss, @)]
          /\ activeRule' = stopLeaveRule
          /\ btn' = [btn EXCEPT !.startBoss = FALSE, !.stopBoss = TRUE]
  /\ dbSessions' = stopInsert(NoRows, authActive, "boss", Boss)
  /\ underRule' = FALSE
  /\ fired' = "none"
  /\ UNCHANGED <<clockVars, envVars, lsVars, Arena, screen, modal, shownStreak,
                 authActive, daily, prng, pending, leftAt>>

\* arenaStart(), from #startArenaBtn
arenaStart ==
  /\ CanClick /\ screen = "focusArena" /\ ~btn.startArena
  /\ modal' = [k |-> "arena", cid |-> NULL, task |-> NoTask]
  /\ fired' = "none"
  /\ dbSessions' = NoRows
  /\ UNCHANGED <<clockVars, envVars, lsVars, activeRule, timedVars, screen, btn,
                 shownStreak, authActive, noteVars, pending, histVars>>

\* The modal's "Enter Arena" button.
ConfirmArena ==
  /\ Attended /\ modal.k = "arena"
  /\ modal' = NoModal
  /\ Arena' = [Arena EXCEPT !.running = TRUE, !.tick = TRUE]
  /\ timers' = [timers EXCEPT !.arena = @ + 1]
  /\ btn' = [btn EXCEPT !.startArena = TRUE, !.stopArena = FALSE]
  /\ activeRule' = startLeaveRule("focusArena", ThresholdMs)
  /\ underRule' = FALSE
  /\ dbSessions' = NoRows
  /\ fired' = "none"
  /\ UNCHANGED <<clockVars, envVars, lsVars, Boss, screen, shownStreak, authActive, daily, prng,
                 pending, leftAt>>

\* arenaStop(reason), from #stopArenaBtn
arenaStop ==
  /\ CanClick /\ screen = "focusArena" /\ ~btn.stopArena
  /\ IF ~Arena.running
     THEN UNCHANGED <<Arena, timers, activeRule, btn>>
     ELSE /\ Arena' = stopped(Arena)
          /\ timers' = [timers EXCEPT !.arena = clearInterval(Arena, @)]
          /\ activeRule' = stopLeaveRule
          /\ btn' = [btn EXCEPT !.startArena = FALSE, !.stopArena = TRUE]
  /\ dbSessions' = stopInsert(NoRows, authActive, "arena", Arena)
  /\ underRule' = FALSE
  /\ fired' = "none"
  /\ UNCHANGED <<clockVars, envVars, lsVars, Boss, screen, modal, shownStreak,
                 authActive, daily, prng, pending, leftAt>>

\* arenaFail(reason), entered with rule0 in the active-rule slot, up to the
\* await of arenaStop's remote insert, and past it when arenaStop awaits nothing
\* remote.  Writes Arena, timers, activeRule, btn, pending, lsArenaHistory,
\* dbSessions.
arenaFail(rule0) ==
  IF ~Arena.running
  THEN /\ activeRule' = rule0
       /\ dbSessions' = NoRows
       /\ UNCHANGED <<Arena, timers, btn, pending, lsArenaHistory>>
  ELSE /\ Arena' = stopped(Arena)
       /\ timers' = [timers EXCEPT !.arena = clearInterval(Arena, @)]
       /\ activeRule' = stopLeaveRule
       /\ btn' = [btn EXCEPT !.startArena = FALSE, !.stopArena = TRUE]
       /\ IF authActive /\ Arena.remainingMs > 0
          THEN /\ CanSuspend("arenaFail")
               /\ pending' = pending \cup {"arenaFail"}
               /\ dbSessions' = stopInsert(NoRows, authActive, "arena", Arena)
               /\ UNCHANGED lsArenaHistory
          ELSE /\ lsArenaHistory' = unshiftCapped(lsArenaHistory, arenaEntry("failed"),
                                                  ArenaHistoryCap)
               /\ dbSessions' = dbInsertSession(NoRows, authActive, "arena", "failed")
               /\ UNCHANGED pending

\* arenaStop's remote insert returns inside arenaFail: the history entry is
\* written (what follows the next remote insert is display only).
ResumeArenaFail ==
  /\ "arenaFail" \in pending
  /\ pending' = pending \ {"arenaFail"}
  /\ lsArenaHistory' = unshiftCapped(lsArenaHistory, arenaEntry("failed"), ArenaHistoryCap)
  /\ dbSessions' = dbInsertSession(NoRows, authActive, "arena", "failed")
  /\ fired' = "none"
  /\ UNCHANGED <<clockVars, envVars, streakVars, lsTodayState, lsBossHistory, lsArenaBadges,
                 activeRule, timedVars, uiVars, authActive, daily, prng, histVars>>

\* The heal without Math.min.
bossHealUncapped(B) ==
  [B EXCEPT !.remainingMs = B.remainingMs + ((B.totalMs * 20) \div 100)]

\* An onTrigger that heals and then ends the fight as the Arena's does.
bossHealAndStop(B) ==
  [B EXCEPT !.remainingMs = IF B.remainingMs + ((B.totalMs * 20) \div 100) > B.totalMs
                            THEN B.totalMs ELSE B.remainingMs + ((B.totalMs * 20) \div 100),
            !.running = FALSE, !.tick = FALSE]

\* The Boss rule's onTrigger: the boss heals 20% of the total, capped at the total.
bossHeal(B) ==
  LET healMs == (B.totalMs * 20) \div 100
  IN  [B EXCEPT !.remainingMs = IF B.remainingMs + healMs > B.totalMs
                                THEN B.totalMs ELSE B.remainingMs + healMs]

\* A duration preset that sets the total and leaves the remaining time.
bossSetDurationTotalOnly(min) ==
  /\ CanClick /\ screen = "bossFight"
  /\ Boss' = IF Boss.running THEN Boss
             ELSE [Boss EXCEPT !.selectedMin = min, !.totalMs = minutesToMs(min)]
  /\ fired' = "none"
  /\ dbSessions' = NoRows
  /\ UNCHANGED <<clockVars, envVars, lsVars, activeRule, Arena, timers, uiVars, authActive, noteVars,
                 pending, histVars>>

\* A duration preset of the Boss screen: the handler refuses while the fight
\* runs, else bossSetDuration(min).
bossSetDuration(min) ==
  /\ CanClick /\ screen = "bossFight"
  /\ Boss' = IF Boss.running THEN Boss
             ELSE [Boss EXCEPT !.selectedMin = min, !.totalMs = minutesToMs(min),
                               !.remainingMs = minutesToMs(min)]
  /\ fired' = "none"
  /\ dbSessions' = NoRows
  /\ UNCHANGED <<clockVars, envVars, lsVars, activeRule, Arena, timers, uiVars, authActive, noteVars,
                 pending, histVars>>

\* A duration preset of the Arena screen, likewise arenaSetDuration(min).
arenaSetDuration(min) ==
  /\ CanClick /\ screen = "focusArena"
  /\ Arena' = IF Arena.running THEN Arena
              ELSE [Arena EXCEPT !.selectedMin = min, !.totalMs = minutesToMs(min),
                                 !.remainingMs = minutesToMs(min)]
  /\ fired' = "none"
  /\ dbSessions' = NoRows
  /\ UNCHANGED <<clockVars, envVars, lsVars, activeRule, Boss, timers, uiVars, authActive, noteVars,
                 pending, histVars>>

\* The tick without its clamp.
tickedUnclamped(S) == S.remainingMs - TickMs

\* remainingMs after one tick: minus 1000, not below 0.
ticked(S) == IF S.remainingMs - TickMs < 0 THEN 0 ELSE S.remainingMs - TickMs

\* The interval callback without its last line: it counts down to 0 and never
\* calls bossVictory().
BossTickNoVictory ==
  /\ timers.boss > 0
  /\ Boss' = IF Boss.running THEN [Boss EXCEPT !.remainingMs = ticked(Boss)] ELSE Boss
  /\ fired' = "none"
  /\ dbSessions' = NoRows
  /\ UNCHANGED <<clockVars, envVars, lsVars, activeRule, Arena, timers, uiVars, authActive, noteVars,
                 pending, histVars>>

\* One call of the interval callback bossStart() scheduled.  At 0 it calls
\* bossVictory(): bossStop("Victory.") awaits nothing remote, so the history
\* entry follows in the same turn; what follows the remote insert of the
\* victory is display only.
BossTick ==
  /\ timers.boss > 0
  /\ IF ~Boss.running
     THEN /\ fired' = "none"
          /\ dbSessions' = NoRows
          /\ UNCHANGED <<Boss, timers, activeRule, btn, lsBossHistory, underRule>>
     ELSE IF ticked(Boss) # 0
          THEN /\ Boss' = [Boss EXCEPT !.remainingMs = ticked(Boss)]
               /\ fired' = "none"
               /\ dbSessions' = NoRows
               /\ UNCHANGED <<timers, activeRule, btn, lsBossHistory, underRule>>
          ELSE /\ Boss' = stopped([Boss EXCEPT !.remainingMs = 0])
               /\ timers' = [timers EXCEPT !.boss = clearInterval(Boss, @)]
               /\ activeRule' = stopLeaveRule
               /\ btn' = [btn EXCEPT !.startBoss = FALSE, !.stopBoss = TRUE]
               /\ lsBossHistory' = unshiftCapped(lsBossHistory, bossEntry, BossHistoryCap)
               /\ underRule' = FALSE
               /\ dbSessions' = dbInsertSession(NoRows, authActive, "boss", "cleared")
               /\ fired' = "bossVictory"
  /\ UNCHANGED <<clockVars, envVars, streakVars, lsTodayState, lsArenaHistory, lsArenaBadges,
                 Arena, screen, modal, shownStreak, authActive, daily, prng, pending, leftAt>>

\* One call of the interval callback arenaStart() scheduled.  At 0 it calls
\* arenaVictory(): arenaStop awaits nothing remote, so the badge and the
\* history entry follow in the same turn.
ArenaTick ==
  /\ timers.arena > 0
  /\ IF ~Arena.running
     THEN /\ fired' = "none"
          /\ dbSessions' = NoRows
          /\ UNCHANGED <<Arena, timers, activeRule, btn, lsArenaHistory, lsArenaBadges,
                         underRule>>
     ELSE IF ticked(Arena) # 0
          THEN /\ Arena' = [Arena EXCEPT !.remainingMs = ticked(Arena)]
               /\ fired' = "none"
               /\ dbSessions' = NoRows
               /\ UNCHANGED <<timers, activeRule, btn, lsArenaHistory, lsArenaBadges,
                              underRule>>
          ELSE /\ Arena' = stopped([Arena EXCEPT !.remainingMs = 0])
               /\ timers' = [timers EXCEPT !.arena = clearInterval(Arena, @)]
               /\ activeRule' = stopLeaveRule
               /\ btn' = [btn EXCEPT !.startArena = FALSE, !.stopArena = TRUE]
               /\ lsArenaBadges' = setArenaBadges(getArenaBadges(lsArenaBadges) + 1)
               /\ lsArenaHistory' = unshiftCapped(lsArenaHistory, arenaEntry("cleared"),
                                                  ArenaHistoryCap)
               /\ underRule' = FALSE
               /\ dbSessions' = dbInsertSession(NoRows, authActive, "arena", "cleared")
               /\ fired' = "arenaVictory"
  /\ UNCHANGED <<clockVars, envVars, streakVars, lsTodayState, lsBossHistory, Boss, screen,
                 modal, shownStreak, authActive, daily, prng, pending, leftAt>>

\* ------------------------------------------------------------- navigation
\* enterMode buttons of the hub.
enterMode(mode) ==
  /\ CanClick /\ screen = "home"
  /\ screen' = mode
  /\ IF mode = "challenge24"
     THEN /\ lsTodayState' = getTodayChallengeState(lsTodayState, now)
          /\ btn' = renderChallenge24(getTodayChallengeState(lsTodayState, now), btn)
     ELSE UNCHANGED <<lsTodayState, btn>>
  /\ fired' = "none"
  /\ dbSessions' = NoRows
  /\ UNCHANGED <<clockVars, envVars, streakVars, logVars, activeRule, timedVars, modal,
                 shownStreak, authActive, noteVars, pending, histVars>>

\* A back-home tail that gives up the day's run: going home while the run is
\* in_progress marks it failed.
ShowHomeAbandons ==
  /\ screen' = "home"
  /\ lsTodayState' =
       LET st == getTodayChallengeState(lsTodayState, now)
       IN  IF st.state = "in_progress"
           THEN setTodayChallengeState(st, now, [state |-> "failed", resultAt |-> now])
           ELSE st
  /\ shownStreak' = getStreak(lsStreak)

\* The tail of the back-home handler: showScreen("#screenHome"); renderHub().
ShowHome ==
  /\ screen' = "home"
  /\ lsTodayState' = getTodayChallengeState(lsTodayState, now)
  /\ shownStreak' = getStreak(lsStreak)

\* The middle of the back-home handler: if (Arena.running) await arenaStop(...),
\* entered with rule0, b0, t0, p0, r0 as active rule, buttons, timers, pending
\* and rows sent.
HomeFromArena(rule0, b0, t0, p0, r0) ==
  IF Arena.running
  THEN /\ Arena' = stopped(Arena)
       /\ dbSessions' = stopInsert(r0, authActive, "arena", Arena)
       /\ timers' = [t0 EXCEPT !.arena = clearInterval(Arena, @)]
       /\ activeRule' = stopLeaveRule
       /\ btn' = [b0 EXCEPT !.startArena = FALSE, !.stopArena = TRUE]
       /\ IF authActive /\ Arena.remainingMs > 0
          THEN /\ "homeArena" \notin p0 /\ Cardinality(p0) < MaxPending
               /\ pending' = p0 \cup {"homeArena"}
               /\ UNCHANGED <<screen, lsTodayState, shownStreak>>
          ELSE /\ pending' = p0
               /\ ShowHome
  ELSE /\ activeRule' = rule0
       /\ btn' = b0
       /\ timers' = t0
       /\ pending' = p0
       /\ dbSessions' = r0
       /\ ShowHome
       /\ UNCHANGED Arena

\* backHome buttons and the brand (#goHome).
backHome ==
  /\ CanClick
  /\ IF Boss.running
     THEN /\ Boss' = stopped(Boss)
          /\ IF authActive /\ Boss.remainingMs > 0
             THEN /\ CanSuspend("homeBoss")
                  /\ pending' = pending \cup {"homeBoss"}
                  /\ timers' = [timers EXCEPT !.boss = clearInterval(Boss, @)]
                  /\ activeRule' = stopLeaveRule
                  /\ btn' = [btn EXCEPT !.startBoss = FALSE, !.stopBoss = TRUE]
                  /\ dbSessions' = stopInsert(NoRows, authActive, "boss", Boss)
                  /\ UNCHANGED <<Arena, screen, lsTodayState, shownStreak>>
             ELSE HomeFromArena(stopLeaveRule,
                                [btn EXCEPT !.startBoss = FALSE, !.stopBoss = TRUE],
                                [timers EXCEPT !.boss = clearInterval(Boss, @)],
                                pending,
                                stopInsert(NoRows, authActive, "boss", Boss))
     ELSE /\ HomeFromArena(activeRule, btn, timers, pending, NoRows)
          /\ UNCHANGED Boss
  /\ underRule' = FALSE
  /\ fired' = "none"
  /\ UNCHANGED <<clockVars, envVars, streakVars, logVars, modal, authActive, daily, prng, leftAt>>

\* bossStop's remote insert returns inside the back-home handler.
ResumeHomeBoss ==
  /\ "homeBoss" \in pending
  /\ HomeFromArena(activeRule, btn, timers, pending \ {"homeBoss"}, NoRows)
  /\ underRule' = IF Arena.running THEN FALSE ELSE underRule
  /\ fired' = "none"
  /\ UNCHANGED <<clockVars, envVars, streakVars, logVars, Boss, modal, authActive, daily, prng, leftAt>>

\* arenaStop's remote insert returns inside the back-home handler.
ResumeHomeArena ==
  /\ "homeArena" \in pending
  /\ pending' = pending \ {"homeArena"}
  /\ ShowHome
  /\ fired' = "none"
  /\ dbSessions' = NoRows
  /\ UNCHANGED <<clockVars, envVars, streakVars, logVars, activeRule, timedVars, modal, btn,
                 authActive, noteVars, histVars>>

\* --------------------------------------------------------- the leave rule
\* onTrigger({awayMs}) of the rule in the slot, which checkBack left as rule0.
\* Writes activeRule, lsTodayState, btn, shownStreak, pending, Boss, Arena, timers,
\* lsArenaHistory.
onTrigger(rule0) ==
  CASE rule0.type = "challenge24" ->
         /\ failChallenge(rule0)
         /\ dbSessions' = NoRows
         /\ UNCHANGED <<timedVars, lsArenaHistory>>
    [] rule0.type = "bossFight" ->
         /\ Boss' = bossHeal(Boss)
         /\ activeRule' = rule0
         /\ dbSessions' = NoRows
         /\ UNCHANGED <<Arena, timers, lsTodayState, btn, shownStreak, pending,
                        lsArenaHistory>>
    [] rule0.type = "focusArena" ->
         /\ arenaFail(rule0)
         /\ UNCHANGED <<Boss, lsTodayState, shownStreak>>

\* checkBack() with only the rule test, not the away-timestamp test:
\* Date.now() - null is Date.now().
checkBackNoGuard ==
  IF activeRule = NoRule
  THEN /\ fired' = "checkBackNoop"
       /\ dbSessions' = NoRows
       /\ UNCHANGED <<activeRule, lsTodayState, btn, shownStreak, pending, timedVars,
                      lsArenaHistory>>
  ELSE LET awayMs == IF activeRule.awayStart = NULL THEN now ELSE now - activeRule.awayStart
           rule0  == [activeRule EXCEPT !.awayStart = NULL]
       IN  IF awayMs >= activeRule.thresholdMs
           THEN /\ fired' = activeRule.type
                /\ onTrigger(rule0)
           ELSE /\ fired' = "none"
                /\ activeRule' = rule0
                /\ dbSessions' = NoRows
                /\ UNCHANGED <<lsTodayState, btn, shownStreak, pending, timedVars,
                               lsArenaHistory>>

\* checkBack() of initVisibilityWatcher.
checkBack ==
  IF activeRule = NoRule \/ activeRule.awayStart = NULL
  THEN /\ fired' = "checkBackNoop"
       /\ dbSessions' = NoRows
       /\ UNCHANGED <<activeRule, lsTodayState, btn, shownStreak, pending, timedVars,
                      lsArenaHistory>>
  ELSE LET awayMs == now - activeRule.awayStart
           rule0  == [activeRule EXCEPT !.awayStart = NULL]
       IN  IF awayMs >= activeRule.thresholdMs
           THEN /\ fired' = activeRule.type
                /\ onTrigger(rule0)
           ELSE /\ fired' = "none"
                /\ activeRule' = rule0
                /\ dbSessions' = NoRows
                /\ UNCHANGED <<lsTodayState, btn, shownStreak, pending, timedVars,
                               lsArenaHistory>>

\* The away-timestamp the "visibilitychange" listener leaves when the document
\* has become hidden.
hiddenAwayStart(rule, t) == t

\* The away-timestamp the "blur" listener leaves.
blurAwayStart(rule, t) == IF rule.awayStart = NULL THEN t ELSE rule.awayStart

\* History of a departure: its first hide or blur.
Depart ==
  /\ leftAt' = IF leftAt = NULL THEN now ELSE leftAt
  /\ underRule' = IF leftAt = NULL THEN activeRule # NoRule ELSE underRule

Return ==
  /\ leftAt' = NULL
  /\ underRule' = FALSE

\* "visibilitychange" with document.hidden
VisibilityHidden ==
  /\ ~docHidden
  /\ docHidden' = TRUE
  /\ activeRule' = IF activeRule = NoRule THEN NoRule
                   ELSE [activeRule EXCEPT !.awayStart = hiddenAwayStart(activeRule, now)]
  /\ Depart
  /\ fired' = "none"
  /\ dbSessions' = NoRows
  /\ UNCHANGED <<clockVars, winBlurred, lsVars, timedVars, uiVars, authActive, noteVars, pending>>

\* "visibilitychange" with the document visible again
VisibilityVisible ==
  /\ docHidden
  /\ docHidden' = FALSE
  /\ checkBack
  /\ Return
  /\ UNCHANGED <<clockVars, winBlurred, streakVars, lsBossHistory, lsArenaBadges, screen, modal, authActive, daily, prng>>

\* window "blur"
WindowBlur ==
  /\ ~winBlurred
  /\ winBlurred' = TRUE
  /\ activeRule' = IF activeRule = NoRule THEN NoRule
                   ELSE [activeRule EXCEPT !.awayStart = blurAwayStart(activeRule, now)]
  /\ Depart
  /\ fired' = "none"
  /\ dbSessions' = NoRows
  /\ UNCHANGED <<clockVars, docHidden, lsVars, timedVars, uiVars, authActive, noteVars, pending>>

\* window "focus"
WindowFocus ==
  /\ winBlurred
  /\ winBlurred' = FALSE
  /\ checkBack
  /\ Return
  /\ UNCHANGED <<clockVars, docHidden, streakVars, lsBossHistory, lsArenaBadges, screen, modal, authActive, daily, prng>>

\* A reload of the page.
Reload == boot

\* The daily challenge and the streak ledger over several days, with the user
\* present: the clock, the challenge screen, reloads.
Next ==
  \/ Advance \/ NextDay \/ ClockBack
  \/ enterMode("challenge24")
  \/ backHome
  \/ joinChallenge \/ ModalCancel \/ ConfirmJoin \/ ResumeJoin
  \/ ClickComplete \/ ResumeComplete
  \/ ClickFail \/ ResumeFail
  \/ Reload

Spec == Init /\ [][Next]_vars

\* The leave rule within one day: both signal pairs, the three session kinds
\* that own a rule, navigation, reloads.
NextLeave ==
  \/ Advance
  \/ VisibilityHidden \/ VisibilityVisible \/ WindowBlur \/ WindowFocus
  \/ \E m \in {"challenge24", "bossFight", "focusArena"} : enterMode(m)
  \/ backHome \/ ResumeHomeBoss \/ ResumeHomeArena
  \/ joinChallenge \/ ModalCancel \/ ConfirmJoin \/ ResumeJoin
  \/ ClickComplete \/ ResumeComplete
  \/ ClickFail \/ ResumeFail
  \/ \E task \in Tasks : bossStart(task)
  \/ ConfirmBoss \/ bossStop
  \/ arenaStart \/ ConfirmArena \/ arenaStop \/ ResumeArenaFail
  \/ Reload

SpecLeave == Init /\ [][NextLeave]_vars

\* The timed sessions with their countdowns: duration presets, starts, ticks,
\* leave triggers, stops, victories, failures, navigation, reloads.  A session
\* is started with a preset duration, while the histories are short and while
\* the other session is idle at its full time (one countdown at a time).
MayStart(S, Other) ==
  /\ S.selectedMin \in PresetMinutes
  /\ Len(lsBossHistory) + Len(lsArenaHistory) < MaxOutcomes
  /\ ~Other.running /\ Other.remainingMs = Other.totalMs

NextTimed ==
  \/ Advance
  \/ VisibilityHidden \/ VisibilityVisible
  \/ \E m \in {"bossFight", "focusArena"} : enterMode(m)
  \/ backHome \/ ResumeHomeBoss \/ ResumeHomeArena
  \/ \E min \in PresetMinutes : bossSetDuration(min)
  \/ \E min \in PresetMinutes : arenaSetDuration(min)
  \/ (MayStart(Boss, Arena) /\ \E task \in Tasks : bossStart(task))
  \/ ConfirmBoss \/ bossStop \/ BossTick
  \/ (MayStart(Arena, Boss) /\ arenaStart)
  \/ ConfirmArena \/ arenaStop \/ ArenaTick \/ ResumeArenaFail
  \/ ModalCancel
  \/ Reload

SpecTimed == Init /\ [][NextTimed]_vars

\* The Boss fight alone.  setInterval keeps calling the callback while the
\* interval is scheduled, hence the fairness of BossTick.
NextBoss ==
  \/ Advance
  \/ VisibilityHidden \/ VisibilityVisible
  \/ enterMode("bossFight")
  \/ backHome \/ ResumeHomeBoss
  \/ \E min \in PresetMinutes : bossSetDuration(min)
  \/ (MayStart(Boss, Arena) /\ \E task \in Tasks : bossStart(task))
  \/ ConfirmBoss \/ bossStop \/ BossTick
  \/ ModalCancel
  \/ Reload

SpecBossFair == Init /\ [][NextBoss]_vars /\ WF_vars(BossTick)

\* The reads with one generator kept for the page instead of one created per
\* call: a later read of the day draws on from where the last one stopped.
ReadDailySharedGenerator ==
  LET k == utcDayKey(now)
      a == IF daily.day = k THEN daily.gen ELSE SeedTable[k][2]
  IN  /\ daily' = [day |-> k,
                   reads |-> IF daily.day = k /\ daily.reads < 2 THEN daily.reads + 1
                             ELSE IF daily.day = k THEN daily.reads ELSE 1,
                   seeds |-> SeedTable[k],
                   challenge |-> getTodaysChallenge(k),
                   crowd |-> toLocaleString(crowdDraws(a)[2]),
                   gen |-> crowdDraws(a)[1]]
      /\ fired' = "none"
      /\ dbSessions' = NoRows
      /\ UNCHANGED <<clockVars, envVars, lsVars, activeRule, timedVars, uiVars, authActive,
                     prng, pending, histVars>>

\* todaySeed("challenge"), todaySeed("crowd"), getTodaysChallenge().id and
\* getTodaysCrowdNumber() are called (as renderHub, renderChallenge24 and
\* joinChallenge do) and what they return is noted.
ReadDaily ==
  LET k == utcDayKey(now)
  IN  /\ daily' = [day |-> k,
                   reads |-> IF daily.day = k /\ daily.reads < 2 THEN daily.reads + 1
                             ELSE IF daily.day = k THEN daily.reads ELSE 1,
                   seeds |-> SeedTable[k],
                   challenge |-> getTodaysChallenge(k),
                   crowd |-> getTodaysCrowdNumber(k),
                   gen |-> CrowdDrawsTable[k][1]]
      /\ fired' = "none"
      /\ dbSessions' = NoRows
      /\ UNCHANGED <<clockVars, envVars, lsVars, activeRule, timedVars, uiVars, authActive,
                     prng, pending, histVars>>

\* The key of the record is removed or its text damaged behind the page's
\* back (site data cleared, a write cut short, another script).
StorageDamaged ==
  /\ lsTodayState' \in {Damaged(k, d) : k \in DamagedKinds, d \in {NULL, utcDayKey(now)}}
  /\ lsTodayState' # lsTodayState
  /\ fired' = "none"
  /\ dbSessions' = NoRows
  /\ UNCHANGED <<clockVars, envVars, streakVars, logVars, activeRule, timedVars, uiVars,
                 authActive, noteVars, pending, histVars>>

\* The daily challenge over several days on a clock that only moves forward,
\* with localStorage refusing single writes of completeChallenge and losing
\* or damaging the stored record.
NextQuota ==
  \/ Advance \/ NextDay
  \/ enterMode("challenge24")
  \/ backHome
  \/ joinChallenge \/ ModalCancel \/ ConfirmJoin \/ ResumeJoin
  \/ ClickComplete \/ ResumeComplete
  \/ \E w \in CompleteWrites : ClickCompleteWriteFails(w)
  \/ StorageDamaged
  \/ Reload

SpecQuota == Init /\ [][NextQuota]_vars

\* The day's seeds, challenge and crowd number read at any moment between the
\* operations of the daily challenge, over several days.
NextSeed ==
  \/ Advance \/ NextDay
  \/ enterMode("challenge24")
  \/ backHome
  \/ joinChallenge \/ ModalCancel \/ ConfirmJoin \/ ResumeJoin
  \/ ClickComplete \/ ResumeComplete
  \/ Reload
  \/ ReadDaily

SpecSeed == Init /\ [][NextSeed]_vars

\* Navigation and the timed sessions around a daily run, across one change of
\* day: the hub, the three modes, both ways home, join, complete, fail, the
\* leave rule, Boss and Arena starts and stops, reloads.
NextNav ==
  \/ Advance
  \/ (utcDayKey(now) = 1 /\ NextDay)
  \/ VisibilityHidden \/ VisibilityVisible
  \/ \E m \in {"challenge24", "bossFight", "focusArena"} : enterMode(m)
  \/ backHome \/ ResumeHomeBoss \/ ResumeHomeArena
  \/ joinChallenge \/ ModalCancel \/ ConfirmJoin \/ ResumeJoin
  \/ ClickComplete \/ ResumeComplete
  \/ ClickFail \/ ResumeFail
  \/ bossStart(<<"w">>)
  \/ ConfirmBoss \/ bossStop
  \/ arenaStart \/ ConfirmArena \/ arenaStop \/ ResumeArenaFail
  \/ Reload

SpecNav == Init /\ [][NextNav]_vars

\* The page at rest on the hub with no timed session started since it loaded.
Quiet ==
  /\ screen = "home" /\ modal = NoModal /\ pending = {}
  /\ Boss = DefaultBoss /\ Arena = DefaultArena

\* The streak ledger among everything else the page does, over several days:
\* join, complete, fail, the leave rule, navigation, Boss and Arena starts and
\* stops, reloads.  The day changes while the page is at rest.
NextStreak ==
  \/ Advance
  \/ (Quiet /\ NextDay)
  \/ VisibilityHidden \/ VisibilityVisible
  \/ \E m \in {"challenge24", "bossFight", "focusArena"} : enterMode(m)
  \/ backHome \/ ResumeHomeBoss \/ ResumeHomeArena
  \/ joinChallenge \/ ModalCancel \/ ConfirmJoin \/ ResumeJoin
  \/ ClickComplete \/ ResumeComplete
  \/ ClickFail \/ ResumeFail
  \/ bossStart(<<"w">>)
  \/ ConfirmBoss \/ bossStop
  \/ arenaStart \/ ConfirmArena \/ arenaStop \/ ResumeArenaFail
  \/ Reload

SpecStreak == Init /\ [][NextStreak]_vars

\* The histories filled past their caps.  A mode is entered from the hub and
\* kept; its duration preset is chosen once; sessions are started one after
\* the other, won by the countdown or, in the Arena, failed by the leave rule.
\* Arena sessions are started until the badge count passes the cap of the
\* history by MaxOutcomes.
NextHistory ==
  \/ Advance
  \/ VisibilityHidden \/ VisibilityVisible
  \/ \E m \in {"bossFight", "focusArena"} : enterMode(m)
  \/ (Boss.selectedMin \notin PresetMinutes /\ \E min \in PresetMinutes : bossSetDuration(min))
  \/ (Arena.selectedMin \notin PresetMinutes /\ \E min \in PresetMinutes : arenaSetDuration(min))
  \/ (Boss.selectedMin \in PresetMinutes /\ bossStart(<<"w">>))
  \/ ConfirmBoss \/ BossTick
  \/ (/\ Arena.selectedMin \in PresetMinutes
      /\ getArenaBadges(lsArenaBadges) < ArenaHistoryCap + MaxOutcomes
      /\ arenaStart)
  \/ ConfirmArena \/ ArenaTick \/ ResumeArenaFail

SpecHistory == Init /\ [][NextHistory]_vars

TypeOK ==
  /\ now \in Nat
  /\ lsTodayState.state \in {"not_started", "in_progress", "completed", "failed"}
  /\ getStreak(lsStreak) \in 0..MaxDay

\* ============================================================== properties
\* The fresh record of day number d, as section 4.5 of the specification
\* describes it.
FreshRecord(d) ==
  [dayKey |-> d, state |-> "not_started", startedAt |-> NULL, resultAt |-> NULL,
   challengeId |-> getTodaysChallenge(d)]

\* C1: for a fixed dayKey a completed or failed run keeps its status; in
\* particular joinChallenge on a failed run does not put it back to in_progress.
C1_TerminalStatusIsFinal ==
  [][(/\ lsTodayState.state \in {"completed", "failed"}
      /\ lsTodayState'.dayKey = lsTodayState.dayKey)
     => lsTodayState'.state = lsTodayState.state]_vars

\* C2: whenever the day's run is in_progress and the user comes back from an
\* absence of at least 15000 ms, the run becomes failed - also after a Boss or
\* Arena session in between, and after a page reload.
C2_LongAbsenceFailsRun ==
  [][(/\ leftAt # NULL /\ leftAt' = NULL
      /\ now - leftAt >= ThresholdMs
      /\ lsTodayState.dayKey = utcDayKey(now)
      /\ lsTodayState.state = "in_progress")
     => lsTodayState'.state = "failed"]_vars

\* C3: completeChallenge called on a run that is already completed changes
\* neither the streak count, nor lastStreakDay, nor resultAt, nor the status.
C3_CompleteIsIdempotent ==
  [][(/\ fired' = "complete"
      /\ lsTodayState.dayKey = utcDayKey(now)
      /\ lsTodayState.state = "completed")
     => /\ lsStreak' = lsStreak
        /\ lsLastStreakDay' = lsLastStreakDay
        /\ lsTodayState'.resultAt = lsTodayState.resultAt
        /\ lsTodayState'.state = "completed"]_vars

\* A second call of completeChallenge, later than the one that completed the run.
C3_Witness ==
  /\ fired = "complete"
  /\ lsTodayState.dayKey = utcDayKey(now)
  /\ lsTodayState.state = "completed"
  /\ lsTodayState.resultAt < now

\* C4: a completion on day d with stored lastStreakDay L and count n leaves
\* n if L = d, n + 1 if d is the day after L, and 1 otherwise (no L, a gap of
\* two or more days, a day before L); lastStreakDay is d afterwards.
C4_StreakTransition ==
  [][(/\ fired' = "complete"
      /\ lsTodayState.dayKey = utcDayKey(now)
      /\ lsTodayState.state = "in_progress")
     => LET d == utcDayKey(now)
            L == lsLastStreakDay
            n == IF lsStreak = NULL THEN 0 ELSE lsStreak
        IN  /\ lsLastStreakDay' = d
            /\ (IF lsStreak' = NULL THEN 0 ELSE lsStreak')
                 = (IF L = d THEN n ELSE IF L # NULL /\ d = L + 1 THEN n + 1 ELSE 1)]_vars

\* A completion on the day after the last counted one has just raised the count.
C4_Witness ==
  /\ fired = "complete"
  /\ lsTodayState.state = "completed"
  /\ lsTodayState.resultAt = now
  /\ lsLastStreakDay = utcDayKey(now)
  /\ lsStreak = 2
  /\ incCount[utcDayKey(now)] = 1

C6_BootReconciles ==
  [][fired' = "boot"
     => LET d == utcDayKey(now)
            L == lsLastStreakDay
        IN  /\ IF L # NULL /\ d - L >= 2
               THEN lsStreak' = 0
               ELSE lsStreak' = lsStreak
            /\ shownStreak' = (IF lsStreak' = NULL THEN 0 ELSE lsStreak')
            /\ lsLastStreakDay' = L]_vars

\* A page load has just cleared a streak whose last day is two or more days old.
C6_Witness ==
  /\ fired = "boot"
  /\ lsLastStreakDay # NULL
  /\ utcDayKey(now) - lsLastStreakDay >= 2
  /\ lsStreak = 0
  /\ shownStreak = 0
  /\ incCount[lsLastStreakDay] = 1

\* C7: whenever the hub is rendered on a day more than one day after
\* lastStreakDay, the streak it shows is 0 - also without a reload in between.
C7_ShownStreakIsReconciled ==
  [][(/\ backHome
      /\ lsLastStreakDay # NULL
      /\ utcDayKey(now) - lsLastStreakDay >= 2)
     => shownStreak' = 0]_vars

\* C8: every read of the day's state that finds a record of another dayKey
\* leaves the fresh record of today stored, whatever the old status was; in
\* joinChallenge's confirmation the read becomes the base of the patch.
C8_StaleReadGivesFreshRecord ==
  [][lsTodayState.dayKey # utcDayKey(now)
     => /\ (\/ enterMode("challenge24") \/ backHome \/ Reload
            \/ ClickComplete \/ ClickFail
            \/ ResumeJoin \/ ResumeComplete \/ ResumeFail)
           => lsTodayState' = FreshRecord(utcDayKey(now))
        /\ ConfirmJoin
           => lsTodayState' = [FreshRecord(utcDayKey(now)) EXCEPT
                                 !.state = "in_progress", !.startedAt = now,
                                 !.challengeId = modal.cid]]_vars

\* Yesterday's run was completed, and a read today has replaced its record.
C8_Witness ==
  /\ lsLastStreakDay # NULL
  /\ lsLastStreakDay = utcDayKey(now) - 1
  /\ incCount[lsLastStreakDay] = 1
  /\ lsTodayState = FreshRecord(utcDayKey(now))

\* C9: for each departure under an active rule, the return invokes onTrigger
\* if and only if the departure lasted at least the threshold, whichever of
\* the signals began and ended it and however many of them occurred.
C9_TriggerMatchesAbsence ==
  [][(/\ leftAt # NULL /\ leftAt' = NULL
      /\ underRule /\ activeRule # NoRule)
     => ((fired' = activeRule.type) <=> (now - leftAt >= activeRule.thresholdMs))]_vars

\* C10: while an away-timestamp is recorded, a further hide or blur leaves it
\* as it is.
C10_FirstDepartureWins ==
  [][(/\ activeRule # NoRule
      /\ activeRule.awayStart # NULL
      /\ \/ (~docHidden /\ docHidden')
         \/ (~winBlurred /\ winBlurred'))
     => activeRule'.awayStart = activeRule.awayStart]_vars

\* The document has become visible again, or the window has regained focus.
ReturnEvent == (docHidden /\ ~docHidden') \/ (winBlurred /\ ~winBlurred')

\* What the page holds besides the two presence flags and the clock.
pageVars == <<lsStreak, lsLastStreakDay, lsTodayState, logVars, activeRule, timedVars,
              uiVars, authActive, pending>>

\* C11: a show or focus event that finds no active rule, or an active rule
\* without an away-timestamp, changes nothing the page holds and calls no
\* onTrigger.
C11_ReturnWithoutTimestampIsNoop ==
  [][(ReturnEvent /\ (activeRule = NoRule \/ activeRule.awayStart = NULL))
       => (fired' = "checkBackNoop" /\ UNCHANGED pageVars)]_vars

\* A focus event has found the rule of a running fight without an
\* away-timestamp (the show event before it had consumed it).
C11_Witness ==
  /\ fired = "checkBackNoop"
  /\ activeRule.type = "bossFight" /\ Boss.running
  /\ ~docHidden /\ ~winBlurred

\* C12: the rule slot holds at most one rule (it is one variable).  A rule
\* that takes the slot from a rule of another kind starts without an
\* away-timestamp, and the effect of an onTrigger (the boss heals, the arena
\* session fails, the challenge fails) only ever occurs in a step that found
\* the rule of that kind in the slot: a replaced rule is never triggered.
C12_ReplacedRuleIsDead ==
  [][/\ (activeRule' # NoRule /\ activeRule'.type # activeRule.type)
          => activeRule'.awayStart = NULL
     /\ (Boss.running /\ Boss'.running /\ Boss'.remainingMs > Boss.remainingMs)
          => activeRule.type = "bossFight"
     /\ (ReturnEvent /\ Arena.running /\ ~Arena'.running)
          => activeRule.type = "focusArena"
     /\ (ReturnEvent /\ lsTodayState.state = "in_progress" /\ lsTodayState'.state = "failed")
          => activeRule.type = "challenge24"]_vars

\* The challenge rule has taken the slot from the rule of a running fight
\* while the document was hidden, that is while the fight's rule held an
\* away-timestamp.
C12_Witness ==
  /\ Boss.running /\ docHidden
  /\ activeRule.type = "challenge24" /\ activeRule.awayStart = NULL

\* A show or focus event that finds a rule of the given kind whose absence has
\* reached the threshold.
TriggerStep(type) ==
  /\ ReturnEvent
  /\ activeRule.type = type /\ activeRule.awayStart # NULL
  /\ now - activeRule.awayStart >= activeRule.thresholdMs

Min(a, b) == IF a < b THEN a ELSE b

\* C13: when the Boss rule triggers during a running fight, the remaining time
\* becomes min(totalMs, remainingMs + floor(0.20 * totalMs)).
C13_BossHealsFifthCapped ==
  [][(TriggerStep("bossFight") /\ Boss.running)
       => Boss'.remainingMs = Min(Boss.totalMs, Boss.remainingMs + (Boss.totalMs \div 5))]_vars

\* The boss has just healed during a fight that had lost more than the heal:
\* the sum is below the cap.
C13_Witness ==
  /\ fired = "bossFight" /\ Boss.running
  /\ Boss.remainingMs < Boss.totalMs
  /\ Boss.remainingMs > Boss.totalMs \div 5

\* C14: a leave trigger never ends a Boss fight: after it the fight is still
\* running, its interval is still scheduled, its rule still holds the slot and
\* no history entry has been written.
C14_TriggerKeepsBossRunning ==
  [][(TriggerStep("bossFight") /\ Boss.running)
       => /\ Boss'.running /\ Boss'.tick
          /\ timers'.boss = timers.boss /\ timers'.boss > 0
          /\ activeRule'.type = "bossFight"
          /\ lsBossHistory' = lsBossHistory]_vars

\* A fight right after its rule has triggered.
C14_Witness ==
  /\ fired = "bossFight"
  /\ Boss.running /\ Boss.tick /\ timers.boss = 1
  /\ activeRule = startLeaveRule("bossFight", ThresholdMs)
  /\ lsBossHistory = <<>>

\* C15: when the Arena rule triggers during a running session, the session
\* ends as failed: running is false, its interval is cancelled, the rule slot
\* is empty and one history entry with result "failed" has been recorded.
C15_TriggerFailsArena ==
  [][(TriggerStep("focusArena") /\ Arena.running)
       => /\ ~Arena'.running /\ ~Arena'.tick /\ timers'.arena = 0
          /\ activeRule' = NoRule
          /\ lsArenaHistory' = unshiftCapped(lsArenaHistory, arenaEntry("failed"),
                                             ArenaHistoryCap)]_vars

\* C16: in every reachable state of the Boss fight and of the Arena session
\* the remaining time lies between 0 and the total time.
C16_RemainingWithinTotal ==
  /\ 0 <= Boss.remainingMs /\ Boss.remainingMs <= Boss.totalMs
  /\ 0 <= Arena.remainingMs /\ Arena.remainingMs <= Arena.totalMs

\* The heal has just been cut at the total of a preset duration that differs
\* from the one the page was loaded with.
C16_Witness ==
  /\ fired = "bossFight" /\ Boss.running
  /\ Boss.totalMs # minutesToMs(DefaultMin)
  /\ Boss.remainingMs = Boss.totalMs

\* C17: a tick of a running session takes 1000 ms off the remaining time, not
\* below 0; the tick that leaves 0 ends the session as completed in the same
\* step (running false, the victory recorded), and a tick that leaves more
\* keeps it running: no session is running at 0 after a tick.
C17_TickCountsDownToVictory ==
  [][/\ (BossTick /\ Boss.running)
          => /\ Boss'.remainingMs = IF Boss.remainingMs > TickMs
                                    THEN Boss.remainingMs - TickMs ELSE 0
             /\ Boss'.running <=> (Boss'.remainingMs > 0)
             /\ (Boss'.remainingMs = 0)
                  => /\ fired' = "bossVictory"
                     /\ lsBossHistory' = unshiftCapped(lsBossHistory, bossEntry,
                                                       BossHistoryCap)
     /\ (ArenaTick /\ Arena.running)
          => /\ Arena'.remainingMs = IF Arena.remainingMs > TickMs
                                     THEN Arena.remainingMs - TickMs ELSE 0
             /\ Arena'.running <=> (Arena'.remainingMs > 0)
             /\ (Arena'.remainingMs = 0)
                  => /\ fired' = "arenaVictory"
                     /\ lsArenaBadges' = getArenaBadges(lsArenaBadges) + 1
                     /\ lsArenaHistory' = unshiftCapped(lsArenaHistory, arenaEntry("cleared"),
                                                        ArenaHistoryCap)]_vars

\* The last tick of a fight has just recorded the victory.
C17_Witness ==
  /\ fired = "bossVictory"
  /\ ~Boss.running /\ Boss.remainingMs = 0 /\ timers.boss = 0
  /\ Len(lsBossHistory) = 1 /\ lsBossHistory[1].minutes = Boss.selectedMin

\* A fight that has ended at 0 with its victory recorded, and a fight that
\* was ended before (stop button, navigation home, reload).
BossCompleted == ~Boss.running /\ Boss.remainingMs = 0 /\ lsBossHistory # <<>>
BossStoppedEarly == ~Boss.running /\ Boss.remainingMs > 0

\* C18: with the interval firing fairly, a running fight whose rule has
\* triggered (the clock of one visit leaves room for one absence of the
\* threshold's length, so no second trigger follows) is eventually completed,
\* unless it is stopped first.
C18_HealedFightCompletes ==
  (fired = "bossFight" /\ Boss.running) ~> (BossCompleted \/ BossStoppedEarly)

\* The rule has triggered one tick before the victory: the heal has put the
\* fight a fifth of its total plus that tick away from completion.
C18_Witness ==
  /\ fired = "bossFight" /\ Boss.running
  /\ Boss.remainingMs = (Boss.totalMs \div 5) + TickMs

\* C19: whenever a timed session is not running, its interval handle is null
\* and the rule slot does not hold that session's rule: every way out of
\* running (stop, navigation home, victory, Arena failure, reload) clears both
\* in the step that clears running.
C19_IdleSessionHoldsNothing ==
  /\ ~Boss.running => (~Boss.tick /\ activeRule.type # "bossFight")
  /\ ~Arena.running => (~Arena.tick /\ activeRule.type # "focusArena")

\* The Arena session has failed and its handler is still suspended at the
\* remote insert: the handle and the rule are already gone.
C19_Witness ==
  /\ "arenaFail" \in pending
  /\ ~Arena.running /\ ~Arena.tick /\ activeRule = NoRule
  /\ Arena.remainingMs > 0

\* C20: each session has at most one interval scheduled and none while it is
\* not running (exactly one while it runs), so the countdown of a later
\* session is only driven by its own interval.
C20_OneIntervalWhileRunning ==
  /\ timers.boss = (IF Boss.running THEN 1 ELSE 0)
  /\ timers.arena = (IF Arena.running THEN 1 ELSE 0)

\* A second fight is running after a first one was won: one interval.
C20_Witness ==
  /\ Boss.running /\ timers.boss = 1
  /\ lsBossHistory # <<>>

\* What a transition of a session may write: localStorage, the rule slot, the
\* two session objects with their intervals, the suspended handlers.
engineVars == <<lsStreak, lsLastStreakDay, lsTodayState, logVars, activeRule, timedVars,
                pending>>

\* The stored record is the current day's and holds the given status.
TodayIs(states) ==
  lsTodayState.dayKey = utcDayKey(now) /\ lsTodayState.state \in states

\* C21: a transition attempted from the wrong source state changes nothing:
\* complete or fail when the day's run is not in_progress, join when it is not
\* not_started, stop when the timed session is not running, start when it is
\* running.
C21_WrongStateIsNoop ==
  [][/\ ((ClickComplete \/ ClickFail) /\ TodayIs({"not_started", "completed", "failed"}))
          => UNCHANGED engineVars
     /\ (ConfirmJoin /\ TodayIs({"in_progress", "completed", "failed"}))
          => UNCHANGED engineVars
     /\ (bossStop /\ ~Boss.running) => UNCHANGED engineVars
     /\ (arenaStop /\ ~Arena.running) => UNCHANGED engineVars
     /\ (ConfirmBoss /\ Boss.running) => UNCHANGED engineVars
     /\ (ConfirmArena /\ Arena.running) => UNCHANGED engineVars]_vars

\* The inputs that hold no character besides white space.
BlankTasks == {t \in Tasks : \A i \in 1..Len(t) : t[i] = " "}

\* C22: bossStart with an empty or white-space-only task label is rejected
\* and changes nothing: Boss (running, task, remainingMs, tick), the interval,
\* the rule slot, the modal, the buttons, localStorage.
C22_BlankTaskIsRejected ==
  [][(\E t \in BlankTasks : bossStart(t))
       => (fired' = "bossStartRejected" /\ UNCHANGED <<pageVars, histVars>>)]_vars

\* A start has just been rejected on the Boss screen with a duration chosen.
C22_Witness ==
  /\ fired = "bossStartRejected"
  /\ screen = "bossFight" /\ modal = NoModal
  /\ ~Boss.running /\ Boss.task = NoTask /\ Boss.selectedMin \in PresetMinutes

\* C23: every local effect of a transition is in place in the step of the
\* event itself, before the handler waits for a remote call: the status and
\* the rule for join, complete and fail, the streak ledger for complete, the
\* stop of a timed session, the history entry (and badge) of a victory and of
\* an Arena failure.
C23_LocalEffectsNeverWait ==
  [][/\ (ConfirmJoin /\ TodayIs({"not_started"}))
          => /\ lsTodayState'.state = "in_progress"
             /\ activeRule' = startLeaveRule("challenge24", ThresholdMs)
     /\ (ClickComplete /\ TodayIs({"in_progress"}))
          => /\ lsTodayState'.state = "completed"
             /\ lsLastStreakDay' = utcDayKey(now)
             /\ activeRule' = NoRule
     /\ (ClickFail /\ TodayIs({"in_progress"}))
          => /\ lsTodayState'.state = "failed"
             /\ activeRule' = NoRule
     /\ (bossStop /\ Boss.running)
          => (~Boss'.running /\ timers'.boss = 0 /\ activeRule' = NoRule)
     /\ (arenaStop /\ Arena.running)
          => (~Arena'.running /\ timers'.arena = 0 /\ activeRule' = NoRule)
     /\ (BossTick /\ Boss.running /\ ticked(Boss) = 0)
          => lsBossHistory' = unshiftCapped(lsBossHistory, bossEntry, BossHistoryCap)
     /\ (ArenaTick /\ Arena.running /\ ticked(Arena) = 0)
          => /\ lsArenaBadges' = getArenaBadges(lsArenaBadges) + 1
             /\ lsArenaHistory' = unshiftCapped(lsArenaHistory, arenaEntry("cleared"),
                                                ArenaHistoryCap)
     /\ (TriggerStep("focusArena") /\ Arena.running)
          => (~Arena'.running /\ Len(lsArenaHistory') = Len(lsArenaHistory) + 1)]_vars

\* C24: a durable write that fails during completeChallenge raises no
\* exception, and the handler carries out its remaining steps: the run is
\* never left in_progress with the streak already raised, so that no day is
\* counted twice.
C24_FailedWriteIsHarmless ==
  /\ fired # "completeThrew"
  /\ \A d \in DOMAIN incCount : incCount[d] <= 1

\* C25: when the stored record is absent, unreadable or not parseable, every
\* read treats it as no prior state: the handler works on, and stores, the
\* fresh not_started record of the current day (join: that record patched).
C25_DamagedReadGivesFreshRecord ==
  [][lsTodayState.state \in DamagedKinds
     => /\ (\/ enterMode("challenge24") \/ backHome \/ Reload
            \/ ClickComplete \/ ResumeJoin \/ ResumeComplete)
           => lsTodayState' = FreshRecord(utcDayKey(now))
        /\ ConfirmJoin
           => lsTodayState'.state = "in_progress" /\ lsTodayState'.dayKey = utcDayKey(now)]_vars

\* Today's completion is in the ledger, its record was lost or damaged, and a
\* read has put the fresh record in its place.
C25_Witness ==
  /\ lsLastStreakDay = utcDayKey(now) /\ incCount[utcDayKey(now)] = 1
  /\ lsTodayState = FreshRecord(utcDayKey(now))

C27_ClientsAgreeOnDay ==
  \A o1, o2 \in TzOffsets :
    /\ localDayKey(now, o1) = localDayKey(now, o2)
    /\ SeedTable[localDayKey(now, o1)][1] = SeedTable[localDayKey(now, o2)][1]

\* A step of in-app navigation or of a Boss or Arena operation (the leave
\* triggers of the two included).
NavOrTimedStep ==
  \/ \E m \in {"challenge24", "bossFight", "focusArena"} : enterMode(m)
  \/ backHome \/ ResumeHomeBoss \/ ResumeHomeArena
  \/ \E task \in Tasks : bossStart(task)
  \/ ConfirmBoss \/ bossStop
  \/ arenaStart \/ ConfirmArena \/ arenaStop \/ ResumeArenaFail
  \/ TriggerStep("bossFight") \/ TriggerStep("focusArena")

\* The stored record is of another day and is replaced by the fresh record of
\* the current one.
DayReset ==
  /\ lsTodayState.dayKey # utcDayKey(now)
  /\ lsTodayState' = FreshRecord(utcDayKey(now))

C29_EarlyStopCostsNothing ==
  [][/\ ((bossStop \/ backHome) /\ Boss.running /\ Boss.remainingMs > 0)
          => /\ ~Boss'.running
             /\ Boss'.remainingMs = Boss.remainingMs /\ Boss'.totalMs = Boss.totalMs
             /\ UNCHANGED <<lsBossHistory, lsArenaHistory, lsArenaBadges>>
     /\ ((arenaStop \/ backHome) /\ Arena.running /\ Arena.remainingMs > 0)
          => /\ ~Arena'.running
             /\ Arena'.remainingMs = Arena.remainingMs /\ Arena'.totalMs = Arena.totalMs
             /\ UNCHANGED <<lsBossHistory, lsArenaHistory, lsArenaBadges>>]_vars

\* An Arena session stopped part way, after an earlier one was cleared: one
\* badge, one history entry, the time left kept.
C29_Witness ==
  /\ ~Arena.running /\ "arenaFail" \notin pending
  /\ 0 < Arena.remainingMs /\ Arena.remainingMs < Arena.totalMs
  /\ getArenaBadges(lsArenaBadges) = 1
  /\ Len(lsArenaHistory) = 1 /\ lsArenaHistory[1].result = "cleared"

C31_IndexWithinCatalog ==
  prng.n > 0 => (prng.word \in Word32 /\ prng.idx \in 0..(CatalogSize - 1))

\* A draw in the top twelfth of the range has selected the last entry.
C31_Witness ==
  prng.n > 0 /\ prng.idx = CatalogSize - 1 /\ prng.word[1] >= Half - (Half \div (2 * CatalogSize))

\* Every entry of the history is at least as recent as the one after it.
NewestFirst(h) == \A i \in 1..(Len(h) - 1) : h[i].ts >= h[i + 1].ts

\* The history h with e put first, cut to its first cap entries.
PutFirst(e, h, cap) == SubSeq(<<e>> \o h, 1, Min(Len(h) + 1, cap))

\* C32: the Boss history never holds more than 20 entries and the Arena
\* history never more than 30, both newest first; a history changes by a
\* new entry put first, and past the cap the entries cut off are the oldest.
C32_HistoriesCappedNewestFirst ==
  [][/\ Len(lsBossHistory') <= BossHistoryCap /\ NewestFirst(lsBossHistory')
     /\ Len(lsArenaHistory') <= ArenaHistoryCap /\ NewestFirst(lsArenaHistory')
     /\ lsBossHistory' # lsBossHistory
          => lsBossHistory' = PutFirst(lsBossHistory'[1], lsBossHistory, BossHistoryCap)
     /\ lsArenaHistory' # lsArenaHistory
          => lsArenaHistory' = PutFirst(lsArenaHistory'[1], lsArenaHistory, ArenaHistoryCap)]_vars

\* More Arena sessions were cleared than the history holds: it is full, its
\* first entry is more recent than its last, and a failure is among them.
C32_Witness ==
  /\ getArenaBadges(lsArenaBadges) > ArenaHistoryCap
  /\ Len(lsArenaHistory) = ArenaHistoryCap
  /\ lsArenaHistory[1].ts > lsArenaHistory[ArenaHistoryCap].ts
  /\ \E i \in 1..ArenaHistoryCap : lsArenaHistory[i].result = "failed"

\* The tick of a running Arena session that brings remainingMs to 0.
ArenaCompletes == ArenaTick /\ Arena.running /\ ticked(Arena) = 0

C34_ChallengeRuleOnlyWhileInProgress ==
  activeRule.type = "challenge24" => lsTodayState.state = "in_progress"

\* C35: the challengeId of the stored record is the id the selector yields
\* for the record's dayKey, also when the join is confirmed after the day
\* changed while the rule-check dialog was open.
C35_RecordHoldsItsDaysChallenge ==
  lsTodayState.challengeId = getTodaysChallenge(lsTodayState.dayKey)

\* C36: a Boss or Arena session starts from remainingMs = totalMs, whatever
\* ended the session before it (victory at 0, failure, a stop part-way), so
\* that it completes only after totalMs / 1000 ticks of its own.
C36_SessionStartsAtFullTime ==
  [][/\ (ConfirmBoss /\ Boss'.running) => Boss'.remainingMs = Boss'.totalMs
     /\ (ConfirmArena /\ Arena'.running) => Arena'.remainingMs = Arena'.totalMs]_vars


\* C37: in auth mode a Boss or Arena session that ends sends exactly one row to
\* the remote table "sessions", with the status of its outcome; in particular a
\* step in which the leave rule fails the Arena session sends no row 'stopped'.
C37_ArenaFailureSendsNoStopped ==
  fired = "focusArena" =>
    \A i \in 1..Len(dbSessions.arena) : dbSessions.arena[i] # "stopped"

\* The daily challenge over several days with a clock that can be set back by
\* any number of days.
NextLedger ==
  \/ NextDay
  \/ \E days \in 1..(MaxDay - 1) : ClockBackBy(days)
  \/ enterMode("challenge24")
  \/ joinChallenge \/ ConfirmJoin \/ ResumeJoin
  \/ ClickComplete \/ ResumeComplete
  \/ ClickFail \/ ResumeFail
  \/ backHome
  \/ Reload

SpecLedger == Init /\ [][NextLedger]_vars

NextStamps ==
  \/ Advance \/ NextDay \/ ClockBackWithinDay
  \/ VisibilityHidden \/ VisibilityVisible
  \/ enterMode("challenge24")
  \/ backHome
  \/ joinChallenge \/ ConfirmJoin \/ ResumeJoin
  \/ ClickComplete \/ ResumeComplete
  \/ ClickFail \/ ResumeFail
  \/ Reload

SpecStamps == Init /\ [][NextStamps]_vars

\* C39: the timestamps of the stored record agree with its state: not_started
\* has no startedAt and no resultAt, in_progress has startedAt and no resultAt,
\* completed and failed have both, with resultAt >= startedAt.
C39_TimestampsAgreeWithState ==
  LET s == lsTodayState
  IN  /\ s.state = "not_started" => s.startedAt = NULL /\ s.resultAt = NULL
      /\ s.state = "in_progress" => s.startedAt # NULL /\ s.resultAt = NULL
      /\ s.state \in {"completed", "failed"} =>
           s.startedAt # NULL /\ s.resultAt # NULL /\ s.resultAt >= s.startedAt

\* C39, restated: as long as the system clock has not been set back, the
\* timestamps of the stored record agree with its state.
C39_TimestampsAgreeWithStateForwardClock ==
  skews = 0 => C39_TimestampsAgreeWithState

\* A run failed by the leave rule some time after it was joined, on a later day
\* than a completed one, the clock never having been set back.
C39_Witness ==
  /\ skews = 0
  /\ fired = "challenge24"
  /\ lsTodayState.state = "failed"
  /\ lsTodayState.dayKey = 2
  /\ lsLastStreakDay = 1
  /\ lsTodayState.startedAt < lsTodayState.resultAt
  /\ lsTodayState.resultAt = now

\* C40: at most one of the Boss and the Arena session is running, and while one
\* is running the active leave rule is the rule of that session.
C40_RunningSessionOwnsTheRule ==
  /\ ~(Boss.running /\ Arena.running)
  /\ Boss.running => activeRule.type = "bossFight"
  /\ Arena.running => activeRule.type = "focusArena"

====
